---- MODULE Spec2Model ----
(***************************************************************************)
(* Verification model of the storefront's checkout pipeline                *)
(* (src/components/CheckoutSummaryPage.tsx) and of the quick-view          *)
(* overlay's variant selection (src/components/QuickViewModal.tsx).        *)
(* The two components do not call each other: each has its own variables   *)
(* and its own specification, and leaves the other's variables unchanged.  *)
(*                                                                         *)
(* JavaScript values are tagged records so that values of different JS     *)
(* types can be told apart: Undef, NullV, Num(n), Str(s); a product id     *)
(* string is kept as a sequence of one-character strings (Chars) because   *)
(* the code edits it character-wise (replace, parseInt).                   *)
(* Money is in whole currency units (exact arithmetic).                    *)
(***************************************************************************)
EXTENDS Integers, Sequences, FiniteSets, TLC

VARIABLES
    mounted,        \* the component instance exists (not torn down)
    cartItems,      \* prop cartItems (owned by the parent controller)
    isProcessing,   \* useState(false)
    email,          \* useState('')
    shipping,       \* useState({firstName, lastName, address, city, zip, phone})
    subtotal,       \* useMemo over cartItems
    shippingCost,   \* useMemo over subtotal, cartItems
    total,          \* subtotal + shippingCost of the last render
    pending,        \* number of createOrder calls not yet resolved or rejected
    request,        \* the orderData of the most recent createOrder call
    navigatedTo,    \* last value assigned to window.location.href by the component
    alerted,        \* message the most recent step showed with alert(), or NoAlert
    response,       \* what the most recent step received from createOrder, or NoResponse
    formAtSubmit,   \* history: email and shipping as read by the latest createOrder call
    last,           \* history: what the most recent step was
    submits,        \* history: submit activations that passed validation
    calls,          \* history: createOrder calls made
    \* the quick-view overlay
    qvMounted,      \* the overlay instance exists
    product,        \* prop product of the last render
    onClose,        \* prop onClose of the last render (identity of the callback)
    selectedVariant, \* useState(null)
    initPending,    \* the default-variant effect of a render has not run yet
    keyPending,     \* the Escape-key effect of a render has not run yet
    cleanupPending, \* the unmounted overlay's effect cleanup has not run yet
    listeners,      \* keydown listeners on document: the onClose each one captured
    presentations,  \* history: products presented to this overlay instance
    emitted,        \* arguments of the onAddToCart call of the most recent step
    qlast           \* history: the most recent quick-view step

cvars == <<mounted, cartItems, isProcessing, email, shipping, subtotal,
           shippingCost, total, pending, request, navigatedTo, alerted,
           response, formAtSubmit, last, submits, calls>>

qvars == <<qvMounted, product, onClose, selectedVariant, initPending, keyPending,
           cleanupPending, listeners, presentations, emitted, qlast>>

vars == <<cvars, qvars>>

---------------------------------------------------------------------------
(* Bounds of the model *)

MaxCartLen == 2
MaxQty == 2
MaxPending == 2
MaxSubmits == 2
MaxListeners == 2
MaxPresentations == 3

---------------------------------------------------------------------------
(* Program constants *)

FREE_SHIPPING_THRESHOLD == 35
SHIPPING_COST == 6

ValidationMessage == "Por favor, completa los datos de contacto y envio."
SoftFailureMessage == "Error de conexion con la pasarela de pago. Se ha intentado registrar el pedido localmente."
TransportMessageCopied == SoftFailureMessage
TransportFailureMessage == "Hubo un error al conectar con el banco. Por favor, intentalo de nuevo."
NoAlert == "(no alert)"

PaymentBase == "https://vellaperfumeria.com/finalizar-compra/order-pay/"
NotNavigated == "(checkout page)"

---------------------------------------------------------------------------
(* JavaScript values *)

Undef == [t |-> "undefined"]
NullV == [t |-> "null"]
Num(n) == [t |-> "number", n |-> n]
Str(s) == [t |-> "string", s |-> s]
Chars(c) == [t |-> "chars", c |-> c]
NaN == [t |-> "NaN"]

\* ToBoolean: undefined, null, 0, NaN and '' are falsy
Truthy(v) ==
    CASE v.t = "undefined" -> FALSE
      [] v.t = "null" -> FALSE
      [] v.t = "NaN" -> FALSE
      [] v.t = "number" -> v.n # 0
      [] v.t = "string" -> v.s # ""
      [] v.t = "chars" -> v.c # <<>>

\* the string a template literal `${v}` produces
TemplateString(v) ==
    CASE v.t = "undefined" -> "undefined"
      [] v.t = "null" -> "null"
      [] v.t = "NaN" -> "NaN"
      [] v.t = "number" -> ToString(v.n)
      [] v.t = "string" -> v.s

---------------------------------------------------------------------------
(* Product ids and their conversion to a backend product id (line 92) *)

WcPrefix == <<"w", "c", "-">>
SimPrefix == <<"s", "i", "m", "-">>

RECURSIVE DigitsOf(_)
\* Number.prototype.toString of a non-negative integer, as characters
DigitsOf(n) ==
    IF n < 10 THEN <<ToString(n)>>
    ELSE DigitsOf(n \div 10) \o <<ToString(n % 10)>>

\* item.product.id.toString(); calling it on undefined or null throws a TypeError
ToStringThrows(id) == id.t \in {"undefined", "null"}

IdToString(id) ==
    CASE id.t = "number" -> (IF id.n < 0 THEN <<"-">> \o DigitsOf(-id.n) ELSE DigitsOf(id.n))
      [] id.t = "chars" -> id.c

\* position of the first occurrence of pat in s, 0 when there is none
IndexOf(s, pat) ==
    LET hits == {i \in 1..(Len(s) - Len(pat) + 1) : SubSeq(s, i, i + Len(pat) - 1) = pat}
    IN IF hits = {} THEN 0 ELSE CHOOSE i \in hits : \A j \in hits : i <= j

\* String.prototype.replace(pat, ''): removes the first occurrence only, anywhere in s
ReplaceWithEmpty(s, pat) ==
    LET i == IndexOf(s, pat)
    IN IF i = 0 THEN s ELSE SubSeq(s, 1, i - 1) \o SubSeq(s, i + Len(pat), Len(s))

IsDigit(ch) == ch \in {"0", "1", "2", "3", "4", "5", "6", "7", "8", "9"}
DigitValue(ch) == CHOOSE d \in 0..9 : ToString(d) = ch

RECURSIVE SkipWhiteSpace(_)
SkipWhiteSpace(s) ==
    IF s # <<>> /\ Head(s) = " " THEN SkipWhiteSpace(Tail(s)) ELSE s

RECURSIVE LeadingDigits(_, _, _)
\* value of the longest prefix of decimal digits of s; seen tells whether there was one
LeadingDigits(s, acc, seen) ==
    IF s # <<>> /\ IsDigit(Head(s))
    THEN LeadingDigits(Tail(s), 10 * acc + DigitValue(Head(s)), TRUE)
    ELSE [value |-> acc, seen |-> seen]

\* parseInt(string) with no radix: leading white space, an optional sign, then the
\* longest run of decimal digits; NaN when there is no digit (hexadecimal "0x"
\* strings are outside the ids modelled)
parseInt(s) ==
    LET t == SkipWhiteSpace(s)
        neg == t # <<>> /\ Head(t) = "-"
        u == IF t # <<>> /\ Head(t) \in {"-", "+"} THEN Tail(t) ELSE t
        d == LeadingDigits(u, 0, FALSE)
    IN IF ~d.seen THEN NaN ELSE Num(IF neg THEN -d.value ELSE d.value)

\* line 92: parseInt(id.toString().replace('wc-', '').replace('sim-', ''))
ProductIdOf(id) ==
    parseInt(ReplaceWithEmpty(ReplaceWithEmpty(IdToString(id), WcPrefix), SimPrefix))

---------------------------------------------------------------------------
(* Carts *)

Product(id, price, saver) == [id |-> id, price |-> price, isShippingSaver |-> saver]
CartItem(prod, quantity) == [product |-> prod, quantity |-> quantity]

IdWc12 == Chars(<<"w", "c", "-", "1", "2">>)
IdSim7 == Chars(<<"s", "i", "m", "-", "7">>)
Id34 == Num(34)
IdAbc == Chars(<<"a", "b", "c">>)

Prices == {5, 17, 18}

\* every cart the pricing derivation is checked on
PricedItems ==
    {CartItem(Product(IdWc12, p, s), q) : p \in Prices, s \in BOOLEAN, q \in 1..MaxQty}

RECURSIVE SeqsUpTo(_, _)
SeqsUpTo(S, n) ==
    IF n = 0 THEN {<<>>}
    ELSE LET shorter == SeqsUpTo(S, n - 1)
         IN shorter \cup {Append(c, x) : c \in {d \in shorter : Len(d) = n - 1}, x \in S}

PricedCarts == SeqsUpTo(PricedItems, MaxCartLen)

\* the carts the parent controller hands to the checkout page
EmptyCart == <<>>
CartUnder == <<CartItem(Product(IdWc12, 10, FALSE), 1)>>
CartOver == <<CartItem(Product(IdSim7, 20, FALSE), 2), CartItem(Product(Id34, 5, FALSE), 1)>>
CartSaver == <<CartItem(Product(IdAbc, 5, TRUE), 1)>>
CartNoId == <<CartItem(Product(Undef, 10, FALSE), 1)>>

CheckoutCarts == {EmptyCart, CartUnder, CartOver, CartSaver, CartNoId}

---------------------------------------------------------------------------
(* Pricing derivation (lines 41-50) *)

RECURSIVE Reduce(_, _, _)
\* cartItems.reduce((total, item) => total + item.product.price * item.quantity, 0)
Reduce(items, i, acc) ==
    IF i > Len(items) THEN acc
    ELSE Reduce(items, i + 1, acc + items[i].product.price * items[i].quantity)

RECURSIVE ReduceIgnoringQuantity(_, _, _)
ReduceIgnoringQuantity(items, i, acc) ==
    IF i > Len(items) THEN acc
    ELSE ReduceIgnoringQuantity(items, i + 1, acc + items[i].product.price)

SubtotalIgnoringQuantity(items) == ReduceIgnoringQuantity(items, 1, 0)
SubtotalOf(items) == Reduce(items, 1, 0)

\* cartItems.some(item => item.product.isShippingSaver)
HasShippingSaver(items) == \E i \in 1..Len(items) : items[i].product.isShippingSaver

ShippingCostAboveThreshold(items, sub) ==
    IF HasShippingSaver(items) \/ sub > FREE_SHIPPING_THRESHOLD THEN 0 ELSE SHIPPING_COST
ShippingCostOf(items, sub) ==
    IF HasShippingSaver(items) \/ sub >= FREE_SHIPPING_THRESHOLD THEN 0 ELSE SHIPPING_COST

TotalOf(sub, ship) == sub + ship

---------------------------------------------------------------------------
(* The contact and shipping form (lines 25-38, 53-56, 175-203) *)

ShippingFields == {"firstName", "lastName", "address", "city", "zip", "phone"}

EmailValues == {"", "ana", "ana@vella.es"}
FieldValues == {"", "x"}

\* the email input's type="email": a value that is no e-mail address is a type mismatch
IsEmailAddress(e) == e \in {"ana@vella.es"}

EmptyShipping == [f \in ShippingFields |-> ""]

\* every input of the form carries the required attribute and the form has no
\* noValidate: a user's submit activation fires the submit event only when the
\* browser's constraint validation passes
CheckValidity(em, sh) ==
    /\ em # "" /\ IsEmailAddress(em)
    /\ \A f \in ShippingFields : sh[f] # ""

\* the submit button's disabled attribute (lines 227-230)
SubmitDisabledNever(processing) == FALSE
SubmitDisabled(processing) == processing

\* the empty-cart view replaces the form (lines 130-144)
FormRenderedAlways(items) == TRUE
FormRendered(items) == Len(items) # 0

---------------------------------------------------------------------------
(* handleFinalizeOrder (lines 58-127) *)

\* line 61: if (!email || !shipping.firstName || !shipping.address || !shipping.phone)
MissingRequired(em, sh) ==
    em = "" \/ sh.firstName = "" \/ sh.address = "" \/ sh.phone = ""

\* shipping.lastName || '.'
LastNameRaw(sh) == sh.lastName
LastNameOrDot(sh) == IF sh.lastName # "" THEN sh.lastName ELSE "."

\* building line_items throws when an id has no toString (line 92)
ConstructionThrows(items) == \E i \in 1..Len(items) : ToStringThrows(items[i].product.id)

LineItemsWithoutLast(items) ==
    [i \in 1..(Len(items) - 1) |->
        [product_id |-> ProductIdOf(items[i].product.id), quantity |-> items[i].quantity]]
LineItems(items) ==
    [i \in 1..Len(items) |->
        [product_id |-> ProductIdOf(items[i].product.id), quantity |-> items[i].quantity]]

\* lines 69-96
OrderData(em, sh, items) ==
    [payment_method |-> "stripe",
     payment_method_title |-> "Tarjeta de Credito / Debito",
     set_paid |-> FALSE,
     billing |-> [first_name |-> sh.firstName, last_name |-> LastNameOrDot(sh),
                  address_1 |-> sh.address, city |-> sh.city, postcode |-> sh.zip,
                  country |-> "ES", email |-> em, phone |-> sh.phone],
     shipping |-> [first_name |-> sh.firstName, last_name |-> LastNameOrDot(sh),
                   address_1 |-> sh.address, city |-> sh.city, postcode |-> sh.zip,
                   country |-> "ES"],
     line_items |-> LineItems(items),
     customer_note |-> "Pedido realizado desde Vellaperfumeria App (Pink Edition)"]

NoRequest == [none |-> TRUE]
NoForm == [none |-> TRUE]
NoResponse == [t |-> "none"]
Rejected == [t |-> "rejected"]

\* what createOrder may resolve with
Response(id, key) == [t |-> "object", id |-> id, order_key |-> key]
Responses ==
    {NullV,
     Response(Undef, Undef),
     Response(Num(123), Str("abc")),
     Response(Num(123), Undef),
     Response(Undef, Str("abc")),
     Response(Num(0), Str("abc"))}

\* line 102: if (result && result.id)
HasResult(result) == result.t = "object"
HasOrderId(result) == result.t = "object" /\ Truthy(result.id)

\* line 112
PaymentUrl(orderId, orderKey) ==
    PaymentBase \o TemplateString(orderId) \o "/?pay_for_order=true&key=" \o TemplateString(orderKey)

\* a state setter called after the component was torn down changes nothing
SetIsProcessingDropped(value) == UNCHANGED isProcessing
SetIsProcessing(value) == isProcessing' = IF mounted THEN value ELSE isProcessing

---------------------------------------------------------------------------
(* The quick-view overlay (src/components/QuickViewModal.tsx) *)

VariantTypes == {"Size", "Color"}
Absent == "(absent)"

\* Product.variants: has is false when the product has no variants property; keys
\* are the variant types of the mapping and opts their option values, in order
Variants(keys, opts) == [has |-> TRUE, keys |-> keys, opts |-> opts]
NoVariants == [has |-> FALSE, keys |-> {}, opts |-> [t \in VariantTypes |-> <<>>]]

QvProduct(name, variants) == [name |-> name, variants |-> variants]

ProductSizeColor ==
    QvProduct("dress", Variants({"Size", "Color"}, [Size |-> <<"S", "M">>, Color |-> <<"Red">>]))
ProductColor ==
    QvProduct("lipstick", Variants({"Color"}, [Size |-> <<>>, Color |-> <<"Blue", "Red">>]))
ProductPlain == QvProduct("soap", NoVariants)
ProductNoOptions ==
    QvProduct("sample", Variants({"Size"}, [Size |-> <<>>, Color |-> <<>>]))

QvProducts == {ProductSizeColor, ProductColor, ProductPlain, ProductNoOptions}
NoProduct == QvProduct("(none)", NoVariants)

\* identities of the onClose callbacks the parent passes
CloseCallbacks == {"close1", "close2"}

\* Record<string, string> | null: isNull, or an entry (Absent when the key is
\* missing) for each variant type
NullSelection == [isNull |-> TRUE, entry |-> [t \in VariantTypes |-> Absent]]
Selection(entry) == [isNull |-> FALSE, entry |-> entry]
EmptySelection == Selection([t \in VariantTypes |-> Absent])
KeysOf(sel) == {t \in VariantTypes : sel.entry[t] # Absent}

\* lines 26-31: defaults[key] = variants[key][0].value for every key with an option
DefaultsNeedingTwo(variants) ==
    Selection([t \in VariantTypes |->
        IF t \in variants.keys /\ Len(variants.opts[t]) > 1
        THEN variants.opts[t][1] ELSE Absent])
DefaultsOf(variants) ==
    Selection([t \in VariantTypes |->
        IF t \in variants.keys /\ Len(variants.opts[t]) > 0
        THEN variants.opts[t][1] ELSE Absent])

\* the default-variant effect (lines 24-36): the state it sets, given the previous one
InitSelectionMerging(prev, p) ==
    IF p.variants.has
    THEN Selection([t \in VariantTypes |->
            IF DefaultsOf(p.variants).entry[t] # Absent
            THEN DefaultsOf(p.variants).entry[t] ELSE prev.entry[t]])
    ELSE NullSelection
InitSelection(prev, p) ==
    IF p.variants.has THEN DefaultsOf(p.variants) ELSE NullSelection

\* handleVariantChange (lines 38-40): prev => ({ ...prev, [type]: value });
\* spreading null yields no entry
SelectReplacing(prev, type, value) ==
    Selection([t \in VariantTypes |-> IF t = type THEN value ELSE Absent])
handleVariantChange(prev, type, value) ==
    Selection([prev.entry EXCEPT ![type] = value])

\* the Escape-key effect's cleanup (line 18) removes the listener the effect added,
\* the most recent one this overlay registered
ListenersKept(ls) == ls
ListenersAfterCleanup(ls) == IF ls = <<>> THEN <<>> ELSE SubSeq(ls, 1, Len(ls) - 1)

\* the Escape-key effect (lines 13-19): the cleanup of the previous run, then addEventListener
KeyEffect(ls, callback) == Append(ListenersAfterCleanup(ls), callback)

NoEmission == [none |-> TRUE]
QStep(op, type, value) == [op |-> op, type |-> type, value |-> value]

\* no overlay is shown
QvClosed ==
    /\ qvMounted = FALSE
    /\ product = NoProduct
    /\ onClose = "close1"
    /\ selectedVariant = NullSelection
    /\ initPending = FALSE
    /\ keyPending = FALSE
    /\ cleanupPending = FALSE
    /\ listeners = <<>>
    /\ presentations = 0
    /\ emitted = NoEmission
    /\ qlast = QStep("closed", "", "")

---------------------------------------------------------------------------
(* Initial state: the page is mounted with some cart and an empty form *)

Render(items) ==
    /\ subtotal' = SubtotalOf(items)
    /\ shippingCost' = ShippingCostOf(items, SubtotalOf(items))
    /\ total' = TotalOf(SubtotalOf(items), ShippingCostOf(items, SubtotalOf(items)))

InitWith(carts) ==
    /\ mounted = TRUE
    /\ cartItems \in carts
    /\ isProcessing = FALSE
    /\ email = ""
    /\ shipping = EmptyShipping
    /\ subtotal = SubtotalOf(cartItems)
    /\ shippingCost = ShippingCostOf(cartItems, subtotal)
    /\ total = TotalOf(subtotal, shippingCost)
    /\ pending = 0
    /\ request = NoRequest
    /\ navigatedTo = NotNavigated
    /\ alerted = NoAlert
    /\ response = NoResponse
    /\ formAtSubmit = NoForm
    /\ last = "mount"
    /\ submits = 0
    /\ calls = 0
    /\ QvClosed

Init == InitWith(CheckoutCarts)

---------------------------------------------------------------------------
(* Actions *)

\* the parent controller passes a new cartItems prop; the memos recompute
ReceiveCart(c) ==
    /\ mounted
    /\ c # cartItems
    /\ cartItems' = c
    /\ Render(c)
    /\ alerted' = NoAlert
    /\ response' = NoResponse
    /\ last' = "cart"
    /\ UNCHANGED <<mounted, isProcessing, email, shipping, pending, request,
                   navigatedTo, formAtSubmit>>
    /\ UNCHANGED <<submits, calls>>
    /\ UNCHANGED qvars

\* onChange of the email input (line 175)
SetEmail(value) ==
    /\ mounted /\ FormRendered(cartItems)
    /\ value # email
    /\ email' = value
    /\ alerted' = NoAlert
    /\ response' = NoResponse
    /\ last' = "input"
    /\ UNCHANGED <<mounted, cartItems, isProcessing, shipping, subtotal, shippingCost,
                   total, pending, request, navigatedTo, formAtSubmit>>
    /\ UNCHANGED <<submits, calls>>
    /\ UNCHANGED qvars

\* handleInputChange (lines 53-56)
handleInputChange(name, value) ==
    /\ mounted /\ FormRendered(cartItems)
    /\ value # shipping[name]
    /\ shipping' = [shipping EXCEPT ![name] = value]
    /\ alerted' = NoAlert
    /\ response' = NoResponse
    /\ last' = "input"
    /\ UNCHANGED <<mounted, cartItems, isProcessing, email, subtotal, shippingCost,
                   total, pending, request, navigatedTo, formAtSubmit>>
    /\ UNCHANGED <<submits, calls>>
    /\ UNCHANGED qvars

\* the synchronous part of handleFinalizeOrder, up to the await (lines 58-100);
\* its own gate (line 61) is weaker than the browser's validation that runs first,
\* so its alert branch is never taken from a user's submit activation
handleFinalizeOrder ==
    IF MissingRequired(email, shipping)
    THEN /\ alerted' = ValidationMessage
         /\ last' = "submit-alert"
         /\ UNCHANGED <<isProcessing, pending, request, formAtSubmit, submits, calls>>
    ELSE /\ SetIsProcessing(TRUE)
         /\ alerted' = NoAlert
         /\ submits' = submits + 1
         /\ IF ConstructionThrows(cartItems)
            THEN /\ last' = "submit-threw"
                 /\ UNCHANGED <<pending, request, formAtSubmit, calls>>
            ELSE /\ request' = OrderData(email, shipping, cartItems)
                 /\ pending' = pending + 1
                 /\ calls' = calls + 1
                 /\ formAtSubmit' = [email |-> email, shipping |-> shipping]
                 /\ last' = "submit-called"

\* the user activates the submit control (click, or Enter in a field)
SubmitActivation ==
    /\ mounted /\ FormRendered(cartItems)
    /\ pending < MaxPending /\ submits < MaxSubmits
    /\ response' = NoResponse
    /\ IF SubmitDisabled(isProcessing)
       THEN /\ last' = "submit-disabled"
            /\ alerted' = NoAlert
            /\ UNCHANGED <<isProcessing, pending, request, formAtSubmit, submits, calls>>
       ELSE IF ~CheckValidity(email, shipping)
       THEN /\ last' = "submit-invalid"
            /\ alerted' = NoAlert
            /\ UNCHANGED <<isProcessing, pending, request, formAtSubmit, submits, calls>>
       ELSE handleFinalizeOrder
    /\ UNCHANGED <<mounted, cartItems, email, shipping, subtotal, shippingCost, total,
                   navigatedTo>>
    /\ UNCHANGED qvars

\* createOrder resolves: the rest of the try block (lines 100-120)
Resolve(result) ==
    /\ pending > 0
    /\ pending' = pending - 1
    /\ response' = result
    /\ IF HasOrderId(result)
       THEN /\ navigatedTo' = PaymentUrl(result.id, result.order_key)
            /\ alerted' = NoAlert
            /\ last' = "redirect"
            /\ UNCHANGED isProcessing
       ELSE /\ alerted' = SoftFailureMessage
            /\ SetIsProcessing(FALSE)
            /\ last' = "soft-failure"
            /\ UNCHANGED navigatedTo
    /\ UNCHANGED <<mounted, cartItems, email, shipping, subtotal, shippingCost, total,
                   request, formAtSubmit>>
    /\ UNCHANGED <<submits, calls>>
    /\ UNCHANGED qvars

\* createOrder rejects or throws: the catch block (lines 122-126)
RejectWithRetry ==
    /\ pending > 0
    /\ calls' = calls + 1
    /\ response' = Rejected
    /\ alerted' = NoAlert
    /\ last' = "transport-failure"
    /\ UNCHANGED <<mounted, cartItems, isProcessing, email, shipping, subtotal,
                   shippingCost, total, pending, request, navigatedTo, formAtSubmit,
                   submits>>
    /\ UNCHANGED qvars
Reject ==
    /\ pending > 0
    /\ pending' = pending - 1
    /\ response' = Rejected
    /\ alerted' = TransportFailureMessage
    /\ SetIsProcessing(FALSE)
    /\ last' = "transport-failure"
    /\ UNCHANGED <<mounted, cartItems, email, shipping, subtotal, shippingCost, total,
                   request, navigatedTo, formAtSubmit>>
    /\ UNCHANGED <<submits, calls>>
    /\ UNCHANGED qvars

\* the button of the empty-cart view (line 136): onNavigate('products')
GoToProducts ==
    /\ mounted /\ ~FormRendered(cartItems)
    /\ alerted' = NoAlert
    /\ response' = NoResponse
    /\ last' = "go-products"
    /\ UNCHANGED <<mounted, cartItems, isProcessing, email, shipping, subtotal,
                   shippingCost, total, pending, request, navigatedTo, formAtSubmit>>
    /\ UNCHANGED <<submits, calls>>
    /\ UNCHANGED qvars

\* the parent controller removes the page (another view is shown)
Unmount ==
    /\ mounted
    /\ mounted' = FALSE
    /\ alerted' = NoAlert
    /\ response' = NoResponse
    /\ last' = "unmount"
    /\ UNCHANGED <<cartItems, isProcessing, email, shipping, subtotal, shippingCost,
                   total, pending, request, navigatedTo, formAtSubmit>>
    /\ UNCHANGED <<submits, calls>>
    /\ UNCHANGED qvars

Next ==
    \/ \E c \in CheckoutCarts : ReceiveCart(c)
    \/ \E v \in EmailValues : SetEmail(v)
    \/ \E f \in ShippingFields, v \in FieldValues : handleInputChange(f, v)
    \/ SubmitActivation
    \/ \E r \in Responses : Resolve(r)
    \/ Reject
    \/ GoToProducts
    \/ Unmount

Spec == Init /\ [][Next]_vars

\* the RPC settles
Settle == (\E r \in Responses : Resolve(r)) \/ Reject

\* the order-creation call eventually resolves or rejects
LiveSpec == Spec /\ WF_vars(Settle)

---------------------------------------------------------------------------
(* handleFinalizeOrder as a function of the form: the submit event is delivered to
   onSubmit (line 156) for any contents of the fields; a submit event dispatched by
   script is not preceded by the browser's validation *)

HandlerInit ==
    /\ mounted = TRUE
    /\ cartItems \in {CartUnder, CartOver, CartSaver}
    /\ isProcessing = FALSE
    /\ email \in EmailValues
    /\ shipping \in [ShippingFields -> FieldValues]
    /\ subtotal = SubtotalOf(cartItems)
    /\ shippingCost = ShippingCostOf(cartItems, subtotal)
    /\ total = TotalOf(subtotal, shippingCost)
    /\ pending = 0
    /\ request = NoRequest
    /\ navigatedTo = NotNavigated
    /\ alerted = NoAlert
    /\ response = NoResponse
    /\ formAtSubmit = NoForm
    /\ last = "mount"
    /\ submits = 0
    /\ calls = 0
    /\ QvClosed

DispatchSubmit ==
    /\ mounted /\ FormRendered(cartItems)
    /\ pending < MaxPending /\ submits < MaxSubmits
    /\ response' = NoResponse
    /\ handleFinalizeOrder
    /\ UNCHANGED <<mounted, cartItems, email, shipping, subtotal, shippingCost, total,
                   navigatedTo>>
    /\ UNCHANGED qvars

HandlerNext ==
    \/ DispatchSubmit
    \/ \E r \in Responses : Resolve(r)
    \/ Reject

SpecHandler == HandlerInit /\ [][HandlerNext]_vars

---------------------------------------------------------------------------
(* Pricing over every cart: the parent controller edits the cart one item at a time *)

RemoveAt(items, i) == SubSeq(items, 1, i - 1) \o SubSeq(items, i + 1, Len(items))

AddToCart(item) ==
    /\ Len(cartItems) < MaxCartLen
    /\ ReceiveCart(Append(cartItems, item))

RemoveItem(i) == ReceiveCart(RemoveAt(cartItems, i))

UpdateQuantity(i, q) ==
    ReceiveCart([cartItems EXCEPT ![i] = CartItem(cartItems[i].product, q)])

PricingInit == InitWith(PricedCarts)

PricingNext ==
    \/ \E item \in PricedItems : AddToCart(item)
    \/ \E i \in 1..Len(cartItems) : RemoveItem(i)
    \/ \E i \in 1..Len(cartItems), q \in 1..MaxQty : UpdateQuantity(i, q)

SpecPricing == PricingInit /\ [][PricingNext]_vars

---------------------------------------------------------------------------
(* The quick-view overlay's steps.  React runs an effect after the render that
   scheduled it has been committed, and runs every pending effect before it
   renders again; an event handler can run in between and then sees the state
   of the committed render. *)

EffectsPending == initPending \/ keyPending

\* option buttons of the committed render (lines 82-111)
RenderedOptions(p) ==
    IF p.variants.has
    THEN UNION {{<<t, p.variants.opts[t][i]>> : i \in 1..Len(p.variants.opts[t])} :
                    t \in p.variants.keys}
    ELSE {}

\* the parent shows the overlay: first render of a new instance (useState(null))
QvOpen(p, callback) ==
    /\ ~qvMounted
    /\ qvMounted' = TRUE
    /\ product' = p
    /\ onClose' = callback
    /\ selectedVariant' = NullSelection
    /\ initPending' = TRUE
    /\ keyPending' = TRUE
    /\ cleanupPending' = FALSE
    /\ listeners' = IF cleanupPending THEN ListenersAfterCleanup(listeners) ELSE listeners
    /\ presentations' = 1
    /\ emitted' = NoEmission
    /\ qlast' = QStep("open", "", "")
    /\ UNCHANGED cvars

\* the pending effects of the committed render run: the Escape-key effect
\* (deps [onClose]) and then the default-variant effect (deps [product])
QvFlushEffects ==
    /\ qvMounted
    /\ EffectsPending
    /\ keyPending => Len(listeners) < MaxListeners
    /\ listeners' = IF keyPending THEN KeyEffect(listeners, onClose) ELSE listeners
    /\ selectedVariant' =
         IF initPending THEN InitSelection(selectedVariant, product) ELSE selectedVariant
    /\ initPending' = FALSE
    /\ keyPending' = FALSE
    /\ emitted' = NoEmission
    /\ qlast' = QStep(IF initPending THEN "init" ELSE "listen", "", "")
    /\ UNCHANGED <<qvMounted, product, onClose, cleanupPending, presentations>>
    /\ UNCHANGED cvars

\* the parent renders the same instance with another product
QvReceiveProduct(p) ==
    /\ qvMounted
    /\ ~EffectsPending
    /\ presentations < MaxPresentations
    /\ p # product
    /\ product' = p
    /\ initPending' = TRUE
    /\ presentations' = presentations + 1
    /\ emitted' = NoEmission
    /\ qlast' = QStep("product", "", "")
    /\ UNCHANGED <<qvMounted, onClose, selectedVariant, keyPending, cleanupPending, listeners>>
    /\ UNCHANGED cvars

\* the parent renders the same instance with another onClose callback
QvReceiveOnClose(callback) ==
    /\ qvMounted
    /\ ~EffectsPending
    /\ callback # onClose
    /\ onClose' = callback
    /\ keyPending' = TRUE
    /\ emitted' = NoEmission
    /\ qlast' = QStep("onClose", "", "")
    /\ UNCHANGED <<qvMounted, product, selectedVariant, initPending, cleanupPending,
                   listeners, presentations>>
    /\ UNCHANGED cvars

\* a click on an option button (lines 92, 100)
QvSelect(type, value) ==
    /\ qvMounted
    /\ <<type, value>> \in RenderedOptions(product)
    /\ selectedVariant' = handleVariantChange(selectedVariant, type, value)
    /\ emitted' = NoEmission
    /\ qlast' = QStep("select", type, value)
    /\ UNCHANGED <<qvMounted, product, onClose, initPending, keyPending, cleanupPending,
                   listeners, presentations>>
    /\ UNCHANGED cvars

\* a click on the add-to-cart button (line 116)
QvAddToCart ==
    /\ qvMounted
    /\ emitted' = [product |-> product, handle |-> "buttonRef", selection |-> selectedVariant]
    /\ qlast' = QStep("addToCart", "", "")
    /\ UNCHANGED <<qvMounted, product, onClose, selectedVariant, initPending, keyPending,
                   cleanupPending, listeners, presentations>>
    /\ UNCHANGED cvars

\* a click on the backdrop (line 46) or on the close button (lines 49-52) calls
\* the onClose of the committed render
QvCloseClick ==
    /\ qvMounted
    /\ emitted' = NoEmission
    /\ qlast' = QStep("close", "", onClose)
    /\ UNCHANGED <<qvMounted, product, onClose, selectedVariant, initPending, keyPending,
                   cleanupPending, listeners, presentations>>
    /\ UNCHANGED cvars

\* Escape is pressed: a registered handler calls the onClose it captured (lines 13-15)
QvEscape ==
    /\ \E i \in DOMAIN listeners : qlast' = QStep("escape", "", listeners[i])
    /\ emitted' = NoEmission
    /\ UNCHANGED <<qvMounted, product, onClose, selectedVariant, initPending, keyPending,
                   cleanupPending, listeners, presentations>>
    /\ UNCHANGED cvars

\* a click on the details button (lines 121-126)
QvGoToProduct ==
    /\ qvMounted
    /\ emitted' = NoEmission
    /\ qlast' = QStep("goToProduct", "", "")
    /\ UNCHANGED <<qvMounted, product, onClose, selectedVariant, initPending, keyPending,
                   cleanupPending, listeners, presentations>>
    /\ UNCHANGED cvars

\* the parent stops rendering the overlay: the instance and its state are gone,
\* its effect cleanup is scheduled
QvUnmount ==
    /\ qvMounted
    /\ ~EffectsPending
    /\ qvMounted' = FALSE
    /\ product' = NoProduct
    /\ selectedVariant' = NullSelection
    /\ cleanupPending' = TRUE
    /\ presentations' = 0
    /\ emitted' = NoEmission
    /\ qlast' = QStep("unmount", "", "")
    /\ UNCHANGED <<onClose, initPending, keyPending, listeners>>
    /\ UNCHANGED cvars

\* the unmounted instance's effect cleanup runs (line 18)
QvFlushCleanup ==
    /\ cleanupPending
    /\ listeners' = ListenersAfterCleanup(listeners)
    /\ cleanupPending' = FALSE
    /\ emitted' = NoEmission
    /\ qlast' = QStep("cleanup", "", "")
    /\ UNCHANGED <<qvMounted, product, onClose, selectedVariant, initPending, keyPending,
                   presentations>>
    /\ UNCHANGED cvars

QvInit == InitWith({EmptyCart})

QvNext ==
    \/ \E p \in QvProducts, callback \in CloseCallbacks : QvOpen(p, callback)
    \/ QvFlushEffects
    \/ \E p \in QvProducts : QvReceiveProduct(p)
    \/ \E callback \in CloseCallbacks : QvReceiveOnClose(callback)
    \/ \E type \in VariantTypes, value \in {"S", "M", "Red", "Blue"} : QvSelect(type, value)
    \/ QvAddToCart
    \/ QvCloseClick
    \/ QvEscape
    \/ QvGoToProduct
    \/ QvUnmount
    \/ QvFlushCleanup

SpecQuickView == QvInit /\ [][QvNext]_vars

---------------------------------------------------------------------------
(* Vocabulary of the claims *)

PipelineState ==
    IF navigatedTo # NotNavigated THEN "Redirecting"
    ELSE IF isProcessing THEN "Submitting"
    ELSE "Editing"

FailureMessages == {SoftFailureMessage, TransportFailureMessage}

\* the response is an object carrying an order id / an order security key
CarriesId(r) == r.t = "object" /\ r.id.t # "undefined"
CarriesKey(r) == r.t = "object" /\ r.order_key.t # "undefined"
IsResponse(r) == r.t \in {"object", "null"}

RECURSIVE SumPriceQty(_)
\* sum of price x quantity over the items
SumPriceQty(items) ==
    IF items = <<>> THEN 0
    ELSE Head(items).product.price * Head(items).quantity + SumPriceQty(Tail(items))

SaverIn(items) == {i \in 1..Len(items) : items[i].product.isShippingSaver}

---------------------------------------------------------------------------
(* Claims about the submission pipeline *)

\* C1: at most one createOrder call is outstanding at any time; a submit activation
\* while the pipeline is Submitting starts no second call.
C1_SingleCallInFlight == pending <= 1

\* C1 witness: the user activated the submit control while a call was in flight
C1_Witness == last = "submit-disabled" /\ isProcessing /\ pending = 1

\* the transitions the pipeline is allowed to take in one step
C2_Transition ==
    \/ PipelineState' = PipelineState
    \/ /\ PipelineState = "Editing" /\ PipelineState' = "Submitting"
       /\ last' \in {"submit-called", "submit-threw"}
       /\ ~MissingRequired(email, shipping)
    \/ /\ PipelineState = "Submitting" /\ PipelineState' = "Redirecting"
       /\ last' = "redirect"
    \/ /\ PipelineState = "Submitting" /\ PipelineState' = "Editing"
       /\ alerted' \in FailureMessages

\* what a step taken in Redirecting must leave alone
C2_RedirectingTerminal ==
    PipelineState = "Redirecting" =>
        /\ navigatedTo' = navigatedTo
        /\ isProcessing /\ isProcessing'
        /\ pending' <= pending /\ request' = request /\ last' # "submit-called"

\* C2: the pipeline starts in Editing; its only transitions are Editing -> Submitting
\* by a submit that passes validation, Submitting -> Redirecting on success, and
\* Submitting -> Editing with a failure reported; Redirecting is never left, keeps
\* isProcessing true and makes no further createOrder call.
C2_PipelineTransitions ==
    /\ PipelineState = "Editing"
    /\ [][C2_Transition /\ C2_RedirectingTerminal]_vars

\* C2 witness: the page has redirected and the user tried to submit again
C2_Witness == PipelineState = "Redirecting" /\ last = "submit-disabled"

\* C3: a submit activation in Editing is blocked (no call, isProcessing stays false,
\* form unchanged) when email, first name, address or phone is empty, and enters
\* Submitting when all four are non-empty, whatever last name, city and zip hold.
C3_ValidationGate ==
    [][(~isProcessing /\ last' \in {"submit-invalid", "submit-alert", "submit-called", "submit-threw"}) =>
         IF MissingRequired(email, shipping)
         THEN /\ pending' = pending /\ request' = request /\ ~isProcessing'
              /\ email' = email /\ shipping' = shipping
         ELSE isProcessing']_vars

\* C4: a navigation happens only for a response that carries both an order id and
\* an order key, and its target is exactly the payment URL of that id and key.
C4_NavigationNeedsIdAndKey ==
    [][navigatedTo' # navigatedTo =>
         /\ CarriesId(response') /\ CarriesKey(response')
         /\ navigatedTo' = "https://vellaperfumeria.com/finalizar-compra/order-pay/"
                             \o TemplateString(response'.id)
                             \o "/?pay_for_order=true&key="
                             \o TemplateString(response'.order_key)]_vars

\* C5 as stated: a response without an id causes no navigation, is reported, and
\* returns the pipeline to Editing with isProcessing false and the form equal to
\* what it was just before the submission.
C5_SoftFailureRestoresSubmittedForm ==
    [][(mounted /\ IsResponse(response') /\ ~CarriesId(response')) =>
         /\ navigatedTo' = navigatedTo
         /\ alerted' = SoftFailureMessage
         /\ ~isProcessing' /\ PipelineState' = "Editing"
         /\ [email |-> email', shipping |-> shipping'] = formAtSubmit]_vars

\* C5 amended: a response without an id causes no navigation, is reported, and
\* returns the pipeline to Editing with isProcessing false; handling it changes
\* neither email nor any shipping field (the fields stay editable while the call is
\* in flight, so they are the values just before the response, not the submission).
C5_SoftFailureKeepsForm ==
    [][(mounted /\ IsResponse(response') /\ ~CarriesId(response')) =>
         /\ navigatedTo' = navigatedTo
         /\ alerted' = SoftFailureMessage
         /\ ~isProcessing' /\ PipelineState' = "Editing"
         /\ email' = email /\ shipping' = shipping]_vars

\* C5 witness: a response without an id arrived after the user edited the form
\* while the call was in flight
C5_Witness ==
    /\ mounted /\ last = "soft-failure" /\ response = Response(Undef, Undef)
    /\ ~isProcessing
    /\ [email |-> email, shipping |-> shipping] # formAtSubmit

\* C6: a rejected createOrder call causes no navigation, reports a message other than
\* the soft-failure message, and returns the pipeline to Editing with isProcessing
\* false and email and every shipping field unchanged.
C6_TransportFailure ==
    [][(mounted /\ response' = Rejected) =>
         /\ navigatedTo' = navigatedTo
         /\ alerted' = TransportFailureMessage /\ alerted' # SoftFailureMessage
         /\ ~isProcessing' /\ PipelineState' = "Editing"
         /\ email' = email /\ shipping' = shipping]_vars

\* C6 witness: the call was rejected and the page is back in Editing
C6_Witness ==
    /\ mounted /\ last = "transport-failure" /\ response = Rejected
    /\ ~isProcessing /\ email # ""

\* C7: every entry into Submitting is eventually followed by Redirecting or by a
\* return to Editing with isProcessing false, given that the RPC eventually settles
\* (LiveSpec); also when building the order request fails. A page torn down
\* meanwhile has no pipeline left to return.
C7_SubmittingEnds ==
    (mounted /\ isProcessing) ~> (navigatedTo # NotNavigated \/ ~isProcessing \/ ~mounted)

\* C8: once the page is torn down, a later resolution or rejection of the call in
\* flight navigates nowhere, shows no message and changes no state.
C8_SettleAfterTeardownIsNoOp ==
    [][~mounted =>
         /\ navigatedTo' = navigatedTo
         /\ alerted' = NoAlert
         /\ isProcessing' = isProcessing
         /\ email' = email /\ shipping' = shipping]_vars

---------------------------------------------------------------------------
(* Claims about pricing *)

\* C9: for every cart, the empty one included, subtotal is the sum of price x
\* quantity over the items, total = subtotal + shippingCost, and shippingCost is 0 or 6.
C9_PricingIdentity ==
    /\ subtotal = SumPriceQty(cartItems)
    /\ total = subtotal + shippingCost
    /\ shippingCost \in {0, 6}

\* C9 witness: a recomputed two-item cart with quantities above one that pays shipping
C9_Witness ==
    /\ last = "cart" /\ Len(cartItems) = 2
    /\ cartItems[1].quantity = 2 /\ cartItems[2].quantity = 1
    /\ subtotal = 27 /\ shippingCost = 6 /\ total = 33

\* shipping is free exactly when the subtotal reaches 35 or a saver item is present
C10_FreeShippingRule ==
    (shippingCost = 0) <=> (SumPriceQty(cartItems) >= 35 \/ SaverIn(cartItems) # {})

\* a step that appends a saver item to a saver-free cart and stays under 35
C10_AddingSaver ==
    (/\ Len(cartItems') = Len(cartItems) + 1
     /\ SubSeq(cartItems', 1, Len(cartItems)) = cartItems
     /\ cartItems'[Len(cartItems')].product.isShippingSaver
     /\ SaverIn(cartItems) = {}
     /\ SumPriceQty(cartItems') < 35)
    => (shippingCost = 6 /\ shippingCost' = 0)

\* C10: shippingCost = 0 exactly when subtotal >= 35 (35 included) or some item's
\* product is a shipping saver; adding one shipping-saver item of any price to a cart
\* whose subtotal stays under 35 brings shippingCost from 6 to 0.
C10_FreeShipping == []C10_FreeShippingRule /\ [][C10_AddingSaver]_vars

\* C10 witness: a cart at the boundary subtotal 35 without a saver ships free
C10_Witness ==
    /\ last = "cart" /\ SumPriceQty(cartItems) = 35 /\ SaverIn(cartItems) = {}
    /\ shippingCost = 0

---------------------------------------------------------------------------
(* Claims about the quick-view overlay *)

\* the values of a sequence
Range(seq) == {seq[i] : i \in DOMAIN seq}

\* the variant types of a product that have at least one option
KeysWithOptions(p) == {t \in p.variants.keys : Len(p.variants.opts[t]) > 0}

\* initialization for the presented product has completed
Initialized == qvMounted /\ ~initPending

\* C11 as stated: once initialization for the presented product completes, and
\* after any later selectOption calls, the selection of a product with variants
\* has one value for EVERY variant-type key of Product.variants and no other key;
\* for a product without variants it is null.
C11_EveryKeySelected ==
    Initialized =>
        IF product.variants.has
        THEN /\ ~selectedVariant.isNull
             /\ KeysOf(selectedVariant) = product.variants.keys
        ELSE selectedVariant = NullSelection

C11_SelectionShape ==
    Initialized =>
        IF product.variants.has
        THEN /\ ~selectedVariant.isNull
             /\ KeysOf(selectedVariant) = KeysWithOptions(product)
             /\ \A t \in KeysWithOptions(product) :
                    selectedVariant.entry[t] \in Range(product.variants.opts[t])
        ELSE selectedVariant = NullSelection

C11_InitialIsFirstOption ==
    (qlast'.op = "init" /\ product'.variants.has) =>
        \A t \in KeysWithOptions(product') :
            selectedVariant'.entry[t] = Head(product'.variants.opts[t])

\* C11 (amended): once initialization for the presented product completes, and
\* after any later selectOption calls with rendered option values, the selection
\* of a product with variants has exactly one value, an option of that type, for
\* every variant-type key that has at least one option (initially the type's first
\* option) and no other key; a type with an empty option sequence has no entry; for
\* a product without variants the selection is null.
C11_KeysWithOptionsSelected == []C11_SelectionShape /\ [][C11_InitialIsFirstOption]_vars

C11_Witness ==
    /\ Initialized
    /\ qlast = QStep("select", "Size", "M")
    /\ product = ProductSizeColor
    /\ selectedVariant = Selection([Size |-> "M", Color |-> "Red"])

C12_OnlyTheGivenKey ==
    qlast'.op = "select" =>
        /\ ~selectedVariant'.isNull
        /\ selectedVariant'.entry[qlast'.type] = qlast'.value
        /\ \A t \in VariantTypes \ {qlast'.type} :
               selectedVariant'.entry[t] = selectedVariant.entry[t]

C12_Reselecting ==
    (/\ qlast'.op = "select"
     /\ ~selectedVariant.isNull
     /\ selectedVariant.entry[qlast'.type] = qlast'.value)
        => selectedVariant' = selectedVariant

\* C12: selectOption(type, value) sets the selection's entry for type to value and
\* leaves the entry of every other variant-type key unchanged (selecting Color: Red
\* after Size: M yields {Size: M, Color: Red}); re-selecting the already selected
\* value leaves the selection equal to what it was.
C12_SelectIsPartialUpdate == [][C12_OnlyTheGivenKey /\ C12_Reselecting]_vars

C12_Witness ==
    /\ qlast = QStep("select", "Color", "Red")
    /\ product = ProductSizeColor
    /\ selectedVariant = Selection([Size |-> "M", Color |-> "Red"])

\* the selection made of the first option of every type that has options
FirstOptions(p) ==
    [isNull |-> FALSE,
     entry |-> [t \in VariantTypes |->
                  IF t \in KeysWithOptions(p) THEN Head(p.variants.opts[t]) ELSE Absent]]

C13_ProductChangeSchedulesInit == qlast'.op = "product" => initPending'

C13_InitReplacesSelection ==
    qlast'.op = "init" =>
        /\ selectedVariant' = IF product'.variants.has THEN FirstOptions(product')
                                                       ELSE NullSelection
        /\ KeysOf(selectedVariant') \subseteq product'.variants.keys

\* C13: presenting a new product, also on an overlay instance reused without
\* teardown and after prior selectOption calls, discards the previous selection:
\* every product change schedules the initialization, and the selection that
\* results from it is exactly the new product's defaults (null if it has no
\* variants), with no key or value carried over from the previous product.
C13_NewProductReplacesSelection ==
    [][C13_ProductChangeSchedulesInit /\ C13_InitReplacesSelection]_vars

C13_Witness ==
    /\ qlast.op = "init"
    /\ presentations = 3
    /\ product = ProductColor
    /\ selectedVariant = Selection([Size |-> Absent, Color |-> "Blue"])

\* an onAddToCart call was made in the most recent step
Emitted == emitted # NoEmission

\* C14: every confirmAddToCart emission passes (product, trigger handle, selection)
\* where selection is null if the product has no variants and is never an
\* empty-but-present mapping when the product has variants.
C14_EmittedSelectionNullOrNonEmpty ==
    Emitted =>
        IF emitted.product.variants.has
        THEN emitted.selection # EmptySelection
        ELSE emitted.selection = NullSelection

---------------------------------------------------------------------------
(* Claims about the empty cart and the order request *)

\* the steps a user takes on the form: editing a field, activating the submit control
FormSteps == {"input", "submit-disabled", "submit-invalid", "submit-alert",
              "submit-threw", "submit-called"}

\* the steps a user can take on the page
UserSteps == FormSteps \cup {"go-products"}

CartIsEmpty == mounted /\ Len(cartItems) = 0

C15_OnlyRecoveryStep == (CartIsEmpty /\ last' \in UserSteps) => last' = "go-products"

C15_RecoveryAvailable == CartIsEmpty => ENABLED GoToProducts

\* C15: whenever the cart has zero items the checkout form is not presented (no
\* field can be edited, the submit control cannot be activated) and the only user
\* action available is the recovery action navigating to the product listing,
\* whatever the form contains and whether the pipeline is Editing or Submitting.
C15_EmptyCartShortCircuit == []C15_RecoveryAvailable /\ [][C15_OnlyRecoveryStep]_vars

C15_Witness ==
    /\ CartIsEmpty
    /\ last = "go-products"
    /\ isProcessing
    /\ email # ""

\* a request was passed to createOrder
Requested == request # NoRequest

C16_LastNamesOfRequest ==
    Requested =>
        /\ request.billing.last_name = request.shipping.last_name
        /\ request.billing.last_name # ""
        /\ request.billing.last_name =
             IF formAtSubmit.shipping.lastName # "" THEN formAtSubmit.shipping.lastName
                                                    ELSE "."

C16_FormLeftUnchanged == last' = "submit-called" => shipping' = shipping

\* C16: in every order request passed to createOrder, billing.last_name and
\* shipping.last_name are equal and non-empty: the form's last name when it is
\* non-empty, the placeholder '.' when it is empty; the form's own last-name field
\* is left unchanged by the normalization.
C16_LastNameNormalized == []C16_LastNamesOfRequest /\ [][C16_FormLeftUnchanged]_vars

C16_Witness ==
    /\ last = "submit-called"
    /\ shipping.lastName = ""
    /\ request.billing.last_name = "."
    /\ request.shipping.last_name = "."

\* C17: every line item of every order request passed to createOrder has a
\* product_id that is a positive integer; a cart item whose stripped id does not
\* parse as an integer never results in a non-numeric line item being sent.
C17_ProductIdsPositiveIntegers ==
    Requested =>
        \A i \in DOMAIN request.line_items :
            /\ request.line_items[i].product_id.t = "number"
            /\ request.line_items[i].product_id.n > 0

C18_CallsWithinSubmits == calls <= submits

C18_CallNeedsSubmit ==
    calls' # calls =>
        /\ calls' = calls + 1
        /\ submits' = submits + 1
        /\ last' = "submit-called"
        /\ ~SubmitDisabled(isProcessing) /\ CheckValidity(email, shipping)

C18_FailureMakesNoCall ==
    last' \in {"soft-failure", "transport-failure"} =>
        /\ calls' = calls
        /\ pending' = pending - 1
        /\ request' = request

\* C18: no automatic retry: every createOrder call is made by one user submit
\* activation that passed validation; a soft or transport failure makes no call, so
\* no further call occurs until the user submits again; the number of createOrder
\* calls never exceeds the number of validated user submits.
C18_NoAutomaticRetry ==
    []C18_CallsWithinSubmits /\ [][C18_CallNeedsSubmit /\ C18_FailureMakesNoCall]_vars

C18_Witness ==
    /\ last = "submit-called"
    /\ calls = 2
    /\ submits = 2
    /\ pending = 1

---------------------------------------------------------------------------
(* Claims about the overlay's keydown listener and its emissions *)

\* the overlay is unmounted and the cleanup this scheduled has run
TornDown == ~qvMounted /\ ~cleanupPending

C19_AtMostOneListener == Len(listeners) <= 1

C19_NoneAfterTeardown == TornDown => listeners = <<>>

\* C19: across any sequence of overlay open, product change, change of the onClose
\* callback and close (explicit control, outside click or Escape), at most one
\* keydown listener registered by the overlay exists at any time, and none remains
\* once the overlay has been torn down.
C19_ListenerReleased == C19_AtMostOneListener /\ C19_NoneAfterTeardown

C19_Witness ==
    /\ TornDown
    /\ qlast.op = "cleanup"
    /\ listeners = <<>>
    /\ onClose = "close2"

\* C20: in every interleaving of product presentation, the deferred
\* default-initialization effect, selectOption and confirmAddToCart, the selection
\* emitted by onAddToCart belongs to the product emitted with it: its key set equals
\* that product's variant-type key set, or it is null when the product has no
\* variants.
C20_EmittedSelectionOfEmittedProduct ==
    Emitted =>
        IF emitted.product.variants.has
        THEN /\ ~emitted.selection.isNull
             /\ KeysOf(emitted.selection) = emitted.product.variants.keys
        ELSE emitted.selection = NullSelection

---------------------------------------------------------------------------
(* Claims about the line items of the order request *)

C21_NeverEmpty == Requested => Len(request.line_items) > 0

C21_RequestMadeBySubmit ==
    request' # request => (last' = "submit-called" /\ Len(cartItems) > 0)

C21_OnePerCartItem ==
    last' = "submit-called" =>
        /\ DOMAIN request'.line_items = DOMAIN cartItems
        /\ \A i \in DOMAIN cartItems :
               request'.line_items[i].quantity = cartItems[i].quantity

\* C21: no order request with an empty line_items list is ever passed to
\* createOrder: a submission can only start while the cart is non-empty, and each
\* request contains exactly one line item per cart item, in cart order, carrying
\* that cart item's quantity as read at the moment of submission.
C21_LineItemsMirrorCart ==
    []C21_NeverEmpty /\ [][C21_RequestMadeBySubmit /\ C21_OnePerCartItem]_vars

C21_Witness ==
    /\ last = "submit-called"
    /\ cartItems = CartOver
    /\ request.line_items = << [product_id |-> Num(7), quantity |-> 2],
                               [product_id |-> Num(34), quantity |-> 1] >>

====
